---- MODULE Spec2Model ----
(***************************************************************************)
(* Seat locking of src/server.js: the lockedSeats table, the expiry        *)
(* sweeper (setInterval) and the socket handlers joinEvent, lockSeat and   *)
(* unlockSeat.  Node runs every handler and every timer callback to        *)
(* completion on one thread, so each of them is one action.                *)
(*                                                                         *)
(* JavaScript values are records [t |-> type, v |-> text]: property keys   *)
(* are the string form of the value (seat 0 and seat "0" are one key),     *)
(* while === compares type and value.  Identifiers range over names that   *)
(* are not properties of Object.prototype.                                 *)
(***************************************************************************)
EXTENDS Integers, Sequences, FiniteSets, TLC

\* lockedSeats, Date.now(), the rooms each socket joined; and of the callback
\* that ran last: what it was (last), the table it found (prev), what it emitted (out)
VARIABLES lockedSeats, now, rooms, last, prev, out

\* the sockets that are connected, and the clock reading at which the timer is due
VARIABLES connected, nextSweep

\* whether a fault left a handler; what a subscriber made of the messages it
\* received; the callbacks that ran so far
VARIABLES escaped, view, log

vars == <<lockedSeats, now, rooms, last, prev, out, connected, nextSweep, escaped, view, log>>

(* ---------------------------- JavaScript values ------------------------ *)

Undefined == [t |-> "undefined", v |-> "undefined"]

Str(s) == [t |-> "string", v |-> s]

Num(s) == [t |-> "number", v |-> s]

\* !x
Falsy(x) ==
    \/ x.t = "undefined"
    \/ x.t = "string" /\ x.v = ""
    \/ x.t = "number" /\ x.v = "0"

\* obj[x]: the property key is String(x)
ToKey(x) == x.v

\* `event-${eventId}`
RoomOf(eventId) == ToKey(eventId)

(* ------------------------------ constants ------------------------------ *)

LOCK_EXPIRY_TIME == 5 * 60 * 1000

\* setInterval(..., 60000)
SWEEP_INTERVAL == 60 * 1000

(* ------------------------------- bounds -------------------------------- *)

\* the readings of Date.now(): at the third, a lock taken at 0 is expired and
\* a lock taken or renewed at 1000 is exactly LOCK_EXPIRY_TIME old
Times == {0, 1000, 1000 + LOCK_EXPIRY_TIME}

\* the table is an unbounded map: a lockSeat that would store a lock on a
\* free key arrives only while fewer than MaxLocks locks are stored
MaxLocks == 2

\* the sockets that send requests
Sockets == {"c1"}

\* every socket: c2 only listens
AllSockets == {"c1", "c2"}

\* missing, empty and two event ids
EventIds == {Undefined, Str(""), Num("1"), Num("2")}

\* missing, empty and seat 0
SeatIndexes == {Undefined, Str(""), Num("0")}

\* missing, empty and two users
UserIds == {Undefined, Str(""), Str("A"), Str("B")}

\* the events joined
JoinIds == {Num("1"), Num("2")}

\* a well-formed payload, and the same with one field missing or empty
Canonical == [eventId |-> Num("1"), seatIndex |-> Num("0"), userId |-> Str("A")]

OneFieldOff ==
    {[Canonical EXCEPT !.eventId = e] : e \in EventIds}
    \cup {[Canonical EXCEPT !.seatIndex = x] : x \in SeatIndexes}
    \cup {[Canonical EXCEPT !.userId = u] : u \in UserIds}

\* lockSeat payloads: two events, two seat keys, two users, and OneFieldOff
LockPayloads ==
    [eventId : {Num("1"), Num("2")}, seatIndex : {Num("0"), Str("")}, userId : {Str("A"), Str("B")}]
    \cup OneFieldOff

\* unlockSeat payloads: the same, and every seat with a missing userId
UnlockPayloads ==
    [eventId : {Num("1"), Num("2")}, seatIndex : {Num("0"), Str("")},
     userId : {Undefined, Str("A"), Str("B")}]
    \cup OneFieldOff

(* ------------------------------- helpers ------------------------------- *)

\* {}
EmptyObject == [x \in {} |-> Undefined]

\* lockedSeats[eventId] is truthy
HasEvent(table, e) == ToKey(e) \in DOMAIN table

\* lockedSeats is an object literal, so lockedSeats['__proto__'] is Object.prototype,
\* which every event's object inherits from. The table's entry of this key holds
\* the properties that the handlers have set on Object.prototype.
ProtoKey == "__proto__"

\* the properties an event's object inherits
Inherited(table) == IF ProtoKey \in DOMAIN table THEN table[ProtoKey] ELSE EmptyObject

\* seatIndex is an own property of the event's object
OwnLock(table, e, s) == HasEvent(table, e) /\ ToKey(s) \in DOMAIN table[ToKey(e)]

\* lockedSeats[eventId][seatIndex] where lockedSeats[eventId] is an object: the
\* own property, else the inherited one, else undefined
LockAt(table, e, s) ==
    IF OwnLock(table, e, s) THEN table[ToKey(e)][ToKey(s)]
    ELSE IF ToKey(s) \in DOMAIN Inherited(table) THEN Inherited(table)[ToKey(s)]
    ELSE Undefined

\* lockedSeats[eventId] && lockedSeats[eventId][seatIndex] is truthy
HasLock(table, e, s) == HasEvent(table, e) /\ LockAt(table, e, s) # Undefined

\* obj[key] = value
Put(obj, k, val) == [x \in DOMAIN obj \cup {k} |-> IF x = k THEN val ELSE obj[x]]

\* delete obj[key]
Delete(obj, k) == [x \in DOMAIN obj \ {k} |-> obj[x]]

\* Object.keys(obj) lists integer-like keys first, ascending, then the other
\* keys in insertion order; "" is the only key of the second kind here.
KeyRank(k) ==
    CASE k = "0" -> 0
      [] k = "1" -> 1
      [] k = "2" -> 2
      [] OTHER -> 3

RECURSIVE SortKeys(_)
SortKeys(S) ==
    IF S = {} THEN <<>>
    ELSE LET k == CHOOSE x \in S : \A y \in S : KeyRank(x) <= KeyRank(y)
         IN  <<k>> \o SortKeys(S \ {k})

\* '__proto__' is not an own property, so it is not listed
ObjectKeys(obj) == SortKeys(DOMAIN obj \ {ProtoKey})

\* socket.emit(ev, arg)
EmitTo(sock, ev, arg) == [to |-> <<"socket", sock>>, ev |-> ev, arg |-> arg]

\* io.to(`event-${eventId}`).emit(ev, arg)
Broadcast(eventId, ev, arg) == [to |-> <<"room", RoomOf(eventId)>>, ev |-> ev, arg |-> arg]

\* the callback that ran last: its message and the lock it read from the table
Ran(op, sock, e, s, u, lock) ==
    [op |-> op, sock |-> sock, eventId |-> e, seatIndex |-> s, userId |-> u, lock |-> lock]

Timer(op) == Ran(op, "timer", Undefined, Undefined, Undefined, Undefined)

(* -------------------------------- Init --------------------------------- *)

Init ==
    /\ lockedSeats = EmptyObject
    /\ now = 0
    /\ rooms = [c \in AllSockets |-> {}]
    /\ last = Timer("start")
    /\ prev = EmptyObject
    /\ out = <<>>
    /\ connected = {}
    /\ nextSweep = SWEEP_INTERVAL
    /\ escaped = FALSE
    /\ view = EmptyObject
    /\ log = <<>>

(* ------------------------- setInterval sweeper ------------------------- *)

\* the sweeper evicts a lock that is exactly LOCK_EXPIRY_TIME old
SweepExpiredEarly(lock, t) == t - lock.timestamp >= LOCK_EXPIRY_TIME

\* the sweeper lets a lock live one interval longer
SweepExpiredLate(lock, t) == t - lock.timestamp > LOCK_EXPIRY_TIME + SWEEP_INTERVAL

\* now - lock.timestamp > LOCK_EXPIRY_TIME
SweepExpired(lock, t) == t - lock.timestamp > LOCK_EXPIRY_TIME

\* the sweeper takes every lock to be one interval older than it is
SweepTableAhead(table, t) ==
    [e \in DOMAIN table |->
        IF e = ProtoKey THEN table[e]
        ELSE [k \in {x \in DOMAIN table[e] : ~SweepExpired(table[e][x], t + SWEEP_INTERVAL)}
                 |-> table[e][k]]]

\* the table after the two forEach loops
SweepTable(table, t) ==
    [e \in DOMAIN table |->
        IF e = ProtoKey THEN table[e]
        ELSE [k \in {x \in DOMAIN table[e] : ~SweepExpired(table[e][x], t)} |-> table[e][k]]]

\* the seatUnlocked of one event, in Object.keys order
SweepEventEmits(e, seats, t) ==
    LET gone == SelectSeq(ObjectKeys(seats), LAMBDA k : SweepExpired(seats[k], t))
    IN  [i \in 1..Len(gone) |-> Broadcast(Str(e), "seatUnlocked", [seatIndex |-> Str(gone[i])])]

RECURSIVE SweepEmitsFrom(_, _, _)
SweepEmitsFrom(table, keys, t) ==
    IF keys = <<>> THEN <<>>
    ELSE SweepEventEmits(Head(keys), table[Head(keys)], t) \o SweepEmitsFrom(table, Tail(keys), t)

\* the sweeper removes without a broadcast
SweepEmitsNone(table, t) == <<>>

\* every seatUnlocked of one tick
SweepEmits(table, t) == SweepEmitsFrom(table, ObjectKeys(table), t)

\* the period of the timer is left out: a tick may come at any reading of the clock
Sweep ==
    /\ lockedSeats' = SweepTable(lockedSeats, now)
    /\ out' = SweepEmits(lockedSeats, now)
    /\ last' = Timer("sweep")
    /\ prev' = lockedSeats
    /\ UNCHANGED <<now, rooms>>

(* ------------------------------ joinEvent ------------------------------ *)

\* the snapshot without the expiry filter
ActiveLocksUnfiltered(table, eventId, t) ==
    IF HasEvent(table, eventId)
    THEN [k \in DOMAIN table[ToKey(eventId)] |-> table[ToKey(eventId)][k].userId]
    ELSE EmptyObject

\* activeLocks of the handler
ActiveLocks(table, eventId, t) ==
    IF HasEvent(table, eventId)
    THEN LET seats == table[ToKey(eventId)]
         IN  [k \in {x \in DOMAIN seats : t - seats[x].timestamp <= LOCK_EXPIRY_TIME}
                 |-> seats[k].userId]
    ELSE EmptyObject

JoinEvent(sock, eventId) ==
    /\ rooms' = [rooms EXCEPT ![sock] = @ \cup {RoomOf(eventId)}]
    /\ out' = <<EmitTo(sock, "lockedSeats", ActiveLocks(lockedSeats, eventId, now))>>
    /\ last' = Ran("joinEvent", sock, eventId, Undefined, Undefined, Undefined)
    /\ prev' = lockedSeats
    /\ UNCHANGED <<lockedSeats, now>>

(* ------------------------------- lockSeat ------------------------------ *)

\* !eventId || seatIndex === undefined || !userId
InvalidLockRequest(e, s, u) == Falsy(e) \/ s = Undefined \/ Falsy(u)

\* a stored lock counts as active whatever its age
HeldAnyAge(table, e, s, t) == LockAt(table, e, s) # Undefined

\* a lock that is exactly LOCK_EXPIRY_TIME old counts as expired
HeldActiveStrict(table, e, s, t) ==
    LockAt(table, e, s) # Undefined /\ t - LockAt(table, e, s).timestamp < LOCK_EXPIRY_TIME

\* existingLock && (now - existingLock.timestamp <= LOCK_EXPIRY_TIME)
HeldActive(table, e, s, t) ==
    LockAt(table, e, s) # Undefined /\ t - LockAt(table, e, s).timestamp <= LOCK_EXPIRY_TIME

\* if (!lockedSeats[eventId]) lockedSeats[eventId] = {}
WithEvent(table, e) ==
    IF HasEvent(table, e) \/ ToKey(e) = ProtoKey THEN table
    ELSE Put(table, ToKey(e), EmptyObject)

\* lockedSeats[eventId][seatIndex] = lock, after
\* if (!lockedSeats[eventId]) lockedSeats[eventId] = {}
Store(table, e, s, lock) ==
    LET seats == IF HasEvent(table, e) THEN table[ToKey(e)] ELSE EmptyObject
    IN  Put(table, ToKey(e), Put(seats, ToKey(s), lock))

\* the renewal forgets to move the timestamp
RenewedStale(lock, t) == lock

\* the renewal sets the timestamp one tick of the sweeper back
RenewedBackdated(lock, t) == [lock EXCEPT !.timestamp = t - SWEEP_INTERVAL]

\* existingLock.timestamp = now
Renewed(lock, t) == [lock EXCEPT !.timestamp = t]

\* the renewal writes to the object that existingLock refers to: the event's own
\* property, or the property of Object.prototype it was inherited from
RenewAt(table, e, s, t) ==
    IF OwnLock(table, e, s)
    THEN Store(table, e, s, Renewed(LockAt(table, e, s), t))
    ELSE Store(WithEvent(table, e), Str(ProtoKey), s, Renewed(LockAt(table, e, s), t))

\* the timestamp is moved before the holder is compared
LockSeatTableTouch(table, e, s, u, t) ==
    IF InvalidLockRequest(e, s, u) THEN table
    ELSE IF HeldActive(table, e, s, t)
    THEN RenewAt(table, e, s, t)
    ELSE Store(table, e, s, [userId |-> u, timestamp |-> t])

\* the table when the handler returns
LockSeatTable(table, e, s, u, t) ==
    IF InvalidLockRequest(e, s, u) THEN table
    ELSE IF HeldActive(table, e, s, t)
    THEN IF LockAt(table, e, s).userId # u
         THEN WithEvent(table, e)
         ELSE RenewAt(table, e, s, t)
    ELSE Store(table, e, s, [userId |-> u, timestamp |-> t])

\* what the handler emits
LockSeatEmits(table, sock, e, s, u, t) ==
    IF InvalidLockRequest(e, s, u)
    THEN <<EmitTo(sock, "seatLockFailed", [seatIndex |-> s, reason |-> "Invalid lock request"])>>
    ELSE IF HeldActive(table, e, s, t)
    THEN IF LockAt(table, e, s).userId # u
         THEN <<EmitTo(sock, "seatLockFailed", [seatIndex |-> s, reason |-> "Seat already locked"])>>
         ELSE <<>>
    ELSE <<Broadcast(e, "seatLocked", [seatIndex |-> s, userId |-> u])>>

\* existingLock, read once the request is found valid
LockSeatRead(table, e, s, u) ==
    IF InvalidLockRequest(e, s, u) THEN Undefined ELSE LockAt(table, e, s)

LockSeat(sock, e, s, u) ==
    /\ lockedSeats' = LockSeatTable(lockedSeats, e, s, u, now)
    /\ out' = LockSeatEmits(lockedSeats, sock, e, s, u, now)
    /\ last' = Ran("lockSeat", sock, e, s, u, LockSeatRead(lockedSeats, e, s, u))
    /\ prev' = lockedSeats
    /\ UNCHANGED <<now, rooms>>

(* ------------------------------ unlockSeat ----------------------------- *)

\* a lock that is exactly LOCK_EXPIRY_TIME old may be unlocked by anyone
MayUnlockEarly(lock, u, t) ==
    Falsy(u) \/ lock.userId = u \/ t - lock.timestamp >= LOCK_EXPIRY_TIME

\* a request without userId does not unlock
MayUnlockOwnerOnly(lock, u, t) ==
    lock.userId = u \/ t - lock.timestamp > LOCK_EXPIRY_TIME

\* an expired lock is unlocked by its holder only
MayUnlockNoStale(lock, u, t) == Falsy(u) \/ lock.userId = u

\* !userId || lock.userId === userId || (Date.now() - lock.timestamp > LOCK_EXPIRY_TIME)
MayUnlock(lock, u, t) ==
    Falsy(u) \/ lock.userId = u \/ t - lock.timestamp > LOCK_EXPIRY_TIME

\* the handler broadcasts and forgets to delete
UnlockSeatTableKeeps(table, e, s, u, t) == table

\* the handler deletes the lock and broadcasts
Unlocks(table, e, s, u, t) == HasLock(table, e, s) /\ MayUnlock(LockAt(table, e, s), u, t)

\* the table when the handler returns
UnlockSeatTable(table, e, s, u, t) ==
    IF Unlocks(table, e, s, u, t)
    THEN [table EXCEPT ![ToKey(e)] = Delete(@, ToKey(s))]
    ELSE table

\* what the handler emits
UnlockSeatEmits(table, e, s, u, t) ==
    IF Unlocks(table, e, s, u, t)
    THEN <<Broadcast(e, "seatUnlocked", [seatIndex |-> s])>>
    ELSE <<>>

UnlockSeat(sock, e, s, u) ==
    /\ lockedSeats' = UnlockSeatTable(lockedSeats, e, s, u, now)
    /\ out' = UnlockSeatEmits(lockedSeats, e, s, u, now)
    /\ last' = Ran("unlockSeat", sock, e, s, u, LockAt(lockedSeats, e, s))
    /\ prev' = lockedSeats
    /\ UNCHANGED <<now, rooms>>

(* -------------------------------- clock -------------------------------- *)

\* Date.now() moves on between two callbacks, to a later reading of T
Advance(T) ==
    /\ \E t \in T : t > now /\ now' = t
    /\ last' = Timer("tick")
    /\ prev' = lockedSeats
    /\ out' = <<>>
    /\ UNCHANGED <<lockedSeats, rooms>>

Tick == Advance(Times)

(* ----------------------------- the messages ---------------------------- *)

\* the longest record of callbacks that is kept
MaxLog == 4

\* the number of ticks of the sweeper after which the clock stops
MaxSweeps == 7

\* the number of locks stored in the table
Stored(table) == Cardinality(UNION {{e} \X DOMAIN table[e] : e \in DOMAIN table})

\* a lockSeat arrives
OnLockSeat(sock, p) ==
    /\ (~InvalidLockRequest(p.eventId, p.seatIndex, p.userId)
          /\ ~OwnLock(lockedSeats, p.eventId, p.seatIndex))
       => Stored(lockedSeats) < MaxLocks
    /\ LockSeat(sock, p.eventId, p.seatIndex, p.userId)

(* ------------------------ connect and disconnect ----------------------- *)

\* io.on('connection'): the handlers of the socket are registered
Connect(sock) ==
    /\ sock \notin connected
    /\ connected' = connected \cup {sock}
    /\ last' = Ran("connection", sock, Undefined, Undefined, Undefined, Undefined)
    /\ prev' = lockedSeats
    /\ out' = <<>>
    /\ UNCHANGED <<lockedSeats, now, rooms>>

\* the locks go with the connection
DisconnectClears(sock) ==
    /\ sock \in connected
    /\ connected' = connected \ {sock}
    /\ rooms' = [rooms EXCEPT ![sock] = {}]
    /\ last' = Ran("disconnect", sock, Undefined, Undefined, Undefined, Undefined)
    /\ prev' = lockedSeats
    /\ out' = <<>>
    /\ lockedSeats' = EmptyObject
    /\ UNCHANGED now

\* socket.on('disconnect'): the handler logs; socket.io takes the socket out of its rooms
Disconnect(sock) ==
    /\ sock \in connected
    /\ connected' = connected \ {sock}
    /\ rooms' = [rooms EXCEPT ![sock] = {}]
    /\ last' = Ran("disconnect", sock, Undefined, Undefined, Undefined, Undefined)
    /\ prev' = lockedSeats
    /\ out' = <<>>
    /\ UNCHANGED <<lockedSeats, now>>

(* --------------------------- the specification ------------------------- *)

\* the timer's period, faults, the subscriber and the record of callbacks play no part
Quiet == UNCHANGED <<nextSweep, escaped, view, log>>

Next ==
    \/ Tick /\ UNCHANGED connected /\ Quiet
    \/ Sweep /\ UNCHANGED connected /\ Quiet
    \/ \E c \in Sockets : Connect(c) /\ Quiet
    \/ \E c \in Sockets : Disconnect(c) /\ Quiet
    \/ \E c \in Sockets \cap connected, e \in JoinIds :
          JoinEvent(c, e) /\ UNCHANGED connected /\ Quiet
    \/ \E c \in Sockets \cap connected, p \in LockPayloads :
          OnLockSeat(c, p) /\ UNCHANGED connected /\ Quiet
    \/ \E c \in Sockets \cap connected, p \in UnlockPayloads :
          UnlockSeat(c, p.eventId, p.seatIndex, p.userId) /\ UNCHANGED connected /\ Quiet

Spec == Init /\ [][Next]_vars

(* ------------------------------- claims -------------------------------- *)

\* the <<event key, seat key>> pairs under which the table stores a lock
Slots(table) == UNION {{e} \X DOMAIN table[e] : e \in DOMAIN table}

\* the lock stored under a pair
Lock(table, slot) == table[slot[1]][slot[2]]

\* a field that is absent from the payload, or the empty string
MissingOrEmpty(x) == x = Undefined \/ x = Str("")

\* the pair a message names
SlotOf(m) == <<ToKey(m.eventId), ToKey(m.seatIndex)>>

\* seatLockFailed sent to the socket of message m alone
Failed(m, reason) ==
    <<[to |-> <<"socket", m.sock>>, ev |-> "seatLockFailed",
       arg |-> [seatIndex |-> m.seatIndex, reason |-> reason]]>>

\* C1 (mutual exclusion): a lockSeat naming a seat whose stored lock is at most
\* LOCK_EXPIRY_TIME old, from a claimant other than its holder, is answered with
\* seatLockFailed 'Seat already locked' and leaves the holder in place; and no
\* callback of any kind replaces the holder of such a lock by another one.
C1_MutualExclusion ==
    last.op # "tick" =>
      \A slot \in Slots(prev) :
        LET lock == Lock(prev, slot)
        IN  now - lock.timestamp <= LOCK_EXPIRY_TIME =>
              /\ (last.op = "lockSeat" /\ SlotOf(last) = slot
                    /\ ~MissingOrEmpty(last.userId) /\ last.userId # lock.userId)
                 => /\ out = Failed(last, "Seat already locked")
                    /\ slot \in Slots(lockedSeats)
                    /\ Lock(lockedSeats, slot).userId = lock.userId
              /\ slot \in Slots(lockedSeats) => Lock(lockedSeats, slot).userId = lock.userId

\* a claimant was just refused a seat whose lock, held by another, is exactly
\* LOCK_EXPIRY_TIME old
C1_Witness ==
    /\ last.op = "lockSeat"
    /\ out = Failed(last, "Seat already locked")
    /\ SlotOf(last) \in Slots(lockedSeats)
    /\ Lock(lockedSeats, SlotOf(last)).userId # last.userId
    /\ now - Lock(lockedSeats, SlotOf(last)).timestamp = LOCK_EXPIRY_TIME

\* the table holds the same locks as before the callback
TableUnchanged ==
    /\ Slots(lockedSeats) = Slots(prev)
    /\ \A x \in Slots(prev) : Lock(lockedSeats, x) = Lock(prev, x)

\* every pair but slot holds the same lock as before the callback, or none
OthersUnchanged(slot) ==
    /\ Slots(lockedSeats) \ {slot} = Slots(prev) \ {slot}
    /\ \A x \in Slots(prev) \ {slot} : Lock(lockedSeats, x) = Lock(prev, x)

\* C2 (idempotent renewal): a lockSeat from the holder of a lock at most
\* LOCK_EXPIRY_TIME old emits nothing (no seatLockFailed, no seatLocked), keeps
\* the holder and sets the timestamp to now, whatever renewals came before.
C2_Renewal ==
    (/\ last.op = "lockSeat"
     /\ SlotOf(last) \in Slots(prev)
     /\ now - Lock(prev, SlotOf(last)).timestamp <= LOCK_EXPIRY_TIME
     /\ Lock(prev, SlotOf(last)).userId = last.userId)
    => /\ out = <<>>
       /\ SlotOf(last) \in Slots(lockedSeats)
       /\ Lock(lockedSeats, SlotOf(last)) = [userId |-> last.userId, timestamp |-> now]

\* the holder just renewed a lock that was exactly LOCK_EXPIRY_TIME old
C2_Witness ==
    /\ last.op = "lockSeat"
    /\ out = <<>>
    /\ SlotOf(last) \in Slots(prev)
    /\ Lock(prev, SlotOf(last)).userId = last.userId
    /\ now - Lock(prev, SlotOf(last)).timestamp = LOCK_EXPIRY_TIME
    /\ Lock(lockedSeats, SlotOf(last)).timestamp = now

\* the seat keys of an event whose stored lock is at most LOCK_EXPIRY_TIME old
LiveSeats(ek) ==
    {k \in {x[2] : x \in {y \in Slots(lockedSeats) : y[1] = ek}} :
        now - Lock(lockedSeats, <<ek, k>>).timestamp <= LOCK_EXPIRY_TIME}

\* C3 (TTL expiry in snapshots): the lockedSeats reply to a joinEvent read at
\* clock reading now maps exactly the seats of that event whose stored lock has
\* now - timestamp <= LOCK_EXPIRY_TIME to their holders, swept or not.
C3_Snapshot ==
    last.op = "joinEvent" =>
      /\ Len(out) = 1
      /\ out[1].to = <<"socket", last.sock>>
      /\ out[1].ev = "lockedSeats"
      /\ DOMAIN out[1].arg = LiveSeats(ToKey(last.eventId))
      /\ \A k \in LiveSeats(ToKey(last.eventId)) :
             out[1].arg[k] = Lock(lockedSeats, <<ToKey(last.eventId), k>>).userId

\* a snapshot that leaves out an expired, unswept lock of the event and shows a
\* lock of the event that is exactly LOCK_EXPIRY_TIME old
C3_Witness ==
    /\ last.op = "joinEvent"
    /\ \E x \in Slots(lockedSeats) :
          /\ x[1] = ToKey(last.eventId)
          /\ now - Lock(lockedSeats, x).timestamp > LOCK_EXPIRY_TIME
          /\ x[2] \notin DOMAIN out[1].arg
    /\ \E x \in Slots(lockedSeats) :
          /\ x[1] = ToKey(last.eventId)
          /\ now - Lock(lockedSeats, x).timestamp = LOCK_EXPIRY_TIME
          /\ x[2] \in DOMAIN out[1].arg

\* seatUnlocked{seatIndex} for the pair, sent to the room of its event
IsUnlockedFor(m, slot) ==
    /\ m.to = <<"room", slot[1]>>
    /\ m.ev = "seatUnlocked"
    /\ ToKey(m.arg.seatIndex) = slot[2]

\* C4 (sweeper convergence): after a tick read at clock reading now, no stored
\* lock has now - timestamp > LOCK_EXPIRY_TIME; the tick emitted exactly one
\* seatUnlocked, to the room of its event, for each lock it removed and nothing
\* else; every lock with now - timestamp <= LOCK_EXPIRY_TIME is stored unchanged.
C4_SweepConverges ==
    last.op = "sweep" =>
      LET removed == Slots(prev) \ Slots(lockedSeats)
      IN  /\ \A x \in Slots(lockedSeats) :
                 now - Lock(lockedSeats, x).timestamp <= LOCK_EXPIRY_TIME
          /\ Slots(lockedSeats) \subseteq Slots(prev)
          /\ \A x \in Slots(prev) :
                 now - Lock(prev, x).timestamp <= LOCK_EXPIRY_TIME
                   => x \in Slots(lockedSeats) /\ Lock(lockedSeats, x) = Lock(prev, x)
          /\ Len(out) = Cardinality(removed)
          /\ \A x \in removed :
                 Cardinality({i \in 1..Len(out) : IsUnlockedFor(out[i], x)}) = 1

\* a tick that removed one lock and kept one that is exactly LOCK_EXPIRY_TIME old
C4_Witness ==
    /\ last.op = "sweep"
    /\ Len(out) = 1
    /\ \E x \in Slots(lockedSeats) : now - Lock(lockedSeats, x).timestamp = LOCK_EXPIRY_TIME

\* seatUnlocked{seatIndex} of message m, broadcast once to the room of its event
UnlockedOnce(m) ==
    <<[to |-> <<"room", ToKey(m.eventId)>>, ev |-> "seatUnlocked",
       arg |-> [seatIndex |-> m.seatIndex]]>>

\* C5 as stated (release authorization, denial side): an unlockSeat on a seat
\* whose stored lock is at most LOCK_EXPIRY_TIME old changes nothing and emits
\* nothing whenever the request does not carry the holder's id.
C5_AsStated ==
    (/\ last.op = "unlockSeat"
     /\ SlotOf(last) \in Slots(prev)
     /\ now - Lock(prev, SlotOf(last)).timestamp <= LOCK_EXPIRY_TIME
     /\ last.userId # Lock(prev, SlotOf(last)).userId)
    => TableUnchanged /\ out = <<>>

\* C5 (release authorization, denial side), amended: an unlockSeat on a seat
\* whose stored lock is at most LOCK_EXPIRY_TIME old changes nothing and emits
\* nothing whenever the request carries a userId that is not falsy (absent,
\* empty, 0) and is not the holder's.
C5_ForeignUnlockDenied ==
    (/\ last.op = "unlockSeat"
     /\ SlotOf(last) \in Slots(prev)
     /\ now - Lock(prev, SlotOf(last)).timestamp <= LOCK_EXPIRY_TIME
     /\ ~Falsy(last.userId)
     /\ last.userId # Lock(prev, SlotOf(last)).userId)
    => TableUnchanged /\ out = <<>>

\* another user just tried to unlock a lock that is exactly LOCK_EXPIRY_TIME old
C5_Witness ==
    /\ last.op = "unlockSeat"
    /\ SlotOf(last) \in Slots(lockedSeats)
    /\ now - Lock(lockedSeats, SlotOf(last)).timestamp = LOCK_EXPIRY_TIME
    /\ ~Falsy(last.userId)
    /\ last.userId # Lock(lockedSeats, SlotOf(last)).userId
    /\ out = <<>>

\* C6 (release authorization, success side): an unlockSeat on a seat with a
\* stored lock, carrying the holder's id or a missing or empty userId, removes
\* that lock alone and broadcasts one seatUnlocked{seatIndex} to the event's
\* room; an unlockSeat on a seat with no stored lock changes and emits nothing.
C6_UnlockSucceeds ==
    last.op = "unlockSeat" =>
      /\ (SlotOf(last) \in Slots(prev)
            /\ (last.userId = Lock(prev, SlotOf(last)).userId \/ MissingOrEmpty(last.userId)))
         => /\ SlotOf(last) \notin Slots(lockedSeats)
            /\ OthersUnchanged(SlotOf(last))
            /\ out = UnlockedOnce(last)
      /\ SlotOf(last) \notin Slots(prev) => TableUnchanged /\ out = <<>>

\* an unlockSeat without userId just removed a lock that was not expired
C6_Witness ==
    /\ last.op = "unlockSeat"
    /\ last.userId = Undefined
    /\ SlotOf(last) \in Slots(prev)
    /\ now - Lock(prev, SlotOf(last)).timestamp <= LOCK_EXPIRY_TIME
    /\ SlotOf(last) \notin Slots(lockedSeats)
    /\ out = UnlockedOnce(last)

\* C7 (stale-lock release): an unlockSeat on a seat whose stored lock has
\* now - timestamp > LOCK_EXPIRY_TIME removes it and broadcasts one seatUnlocked,
\* whatever userId it carries; and a sweep tick emits seatUnlocked only for
\* locks the table stored when it ran, so none for a lock already released.
C7_StaleRelease ==
    /\ (/\ last.op = "unlockSeat"
         /\ SlotOf(last) \in Slots(prev)
         /\ now - Lock(prev, SlotOf(last)).timestamp > LOCK_EXPIRY_TIME)
        => /\ SlotOf(last) \notin Slots(lockedSeats)
           /\ OthersUnchanged(SlotOf(last))
           /\ out = UnlockedOnce(last)
    /\ last.op = "sweep" =>
          \A i \in 1..Len(out) : \E x \in Slots(prev) : IsUnlockedFor(out[i], x)

\* a user other than the holder just released an expired, unswept lock
C7_Witness ==
    /\ last.op = "unlockSeat"
    /\ SlotOf(last) \in Slots(prev)
    /\ now - Lock(prev, SlotOf(last)).timestamp > LOCK_EXPIRY_TIME
    /\ ~Falsy(last.userId)
    /\ last.userId # Lock(prev, SlotOf(last)).userId
    /\ SlotOf(last) \notin Slots(lockedSeats)
    /\ out = UnlockedOnce(last)

\* C8 as stated (validation): a lockSeat whose eventId, seatIndex or userId is
\* missing or empty is answered with seatLockFailed 'Invalid lock request' to
\* the requester alone and changes no lock.
C8_AsStated ==
    (/\ last.op = "lockSeat"
     /\ (MissingOrEmpty(last.eventId) \/ MissingOrEmpty(last.seatIndex)
           \/ MissingOrEmpty(last.userId)))
    => out = Failed(last, "Invalid lock request") /\ TableUnchanged

\* a seatLockFailed with this reason is among the emitted messages
Refused(reason) ==
    \E i \in 1..Len(out) : out[i].ev = "seatLockFailed" /\ out[i].arg.reason = reason

\* C9 (conflict denial has no side effects): when lockSeat answers 'Seat already
\* locked', that seatLockFailed to the requester's socket is all it emitted, the
\* table holds the same locks with the same holders and timestamps as before,
\* and the seat's lock is at most LOCK_EXPIRY_TIME old and held by another.
C9_DenialNoSideEffect ==
    (last.op = "lockSeat" /\ Refused("Seat already locked"))
    => /\ out = Failed(last, "Seat already locked")
       /\ TableUnchanged
       /\ SlotOf(last) \in Slots(prev)
       /\ now - Lock(prev, SlotOf(last)).timestamp <= LOCK_EXPIRY_TIME
       /\ Lock(prev, SlotOf(last)).userId # last.userId

\* a claimant was just refused, after the clock moved on, a seat another holds
C9_Witness ==
    /\ last.op = "lockSeat"
    /\ Refused("Seat already locked")
    /\ SlotOf(last) \in Slots(lockedSeats)
    /\ Lock(lockedSeats, SlotOf(last)).timestamp < now

\* the request has an eventId and a userId and names a seat
WellFormed(m) ==
    ~MissingOrEmpty(m.eventId) /\ ~MissingOrEmpty(m.userId) /\ m.seatIndex # Undefined

\* C10 (expired lock equals no lock for acquisition): a lockSeat with eventId,
\* seatIndex and userId on a seat whose stored lock has
\* now - timestamp > LOCK_EXPIRY_TIME does what it does on a seat with no stored
\* lock: it stores {requester, now} there and nowhere else and broadcasts one
\* seatLocked{seatIndex, userId} to the event's room, whoever held the lock.
C10_ExpiredIsFree ==
    (/\ last.op = "lockSeat"
     /\ WellFormed(last)
     /\ (SlotOf(last) \in Slots(prev)
           => now - Lock(prev, SlotOf(last)).timestamp > LOCK_EXPIRY_TIME))
    => /\ SlotOf(last) \in Slots(lockedSeats)
       /\ Lock(lockedSeats, SlotOf(last)) = [userId |-> last.userId, timestamp |-> now]
       /\ OthersUnchanged(SlotOf(last))
       /\ out = <<[to |-> <<"room", ToKey(last.eventId)>>, ev |-> "seatLocked",
                   arg |-> [seatIndex |-> last.seatIndex, userId |-> last.userId]]>>

\* the previous holder just took its own expired, unswept lock again
C10_Witness ==
    /\ last.op = "lockSeat"
    /\ SlotOf(last) \in Slots(prev)
    /\ now - Lock(prev, SlotOf(last)).timestamp > LOCK_EXPIRY_TIME
    /\ Lock(prev, SlotOf(last)).userId = last.userId
    /\ Lock(lockedSeats, SlotOf(last)) = [userId |-> last.userId, timestamp |-> now]
    /\ Len(out) = 1
    /\ out[1].ev = "seatLocked"

(* ------------------ event names that are not ordinary ------------------ *)

\* the event named '__proto__' next to an ordinary one; one seat, whose key is
\* no event's name
ProtoEvents == {Str(ProtoKey), Num("1")}

ProtoLockPayloads ==
    [eventId : ProtoEvents, seatIndex : {Num("0")}, userId : {Str("A"), Str("B")}]

ProtoUnlockPayloads ==
    [eventId : ProtoEvents, seatIndex : {Num("0")}, userId : {Undefined, Str("A"), Str("B")}]

ProtoNext ==
    \/ Tick /\ UNCHANGED connected /\ Quiet
    \/ Sweep /\ UNCHANGED connected /\ Quiet
    \/ \E c \in Sockets : Connect(c) /\ Quiet
    \/ \E c \in Sockets : Disconnect(c) /\ Quiet
    \/ \E c \in Sockets \cap connected, e \in ProtoEvents :
          JoinEvent(c, e) /\ UNCHANGED connected /\ Quiet
    \/ \E c \in Sockets \cap connected, p \in ProtoLockPayloads :
          OnLockSeat(c, p) /\ UNCHANGED connected /\ Quiet
    \/ \E c \in Sockets \cap connected, p \in ProtoUnlockPayloads :
          UnlockSeat(c, p.eventId, p.seatIndex, p.userId) /\ UNCHANGED connected /\ Quiet

ProtoSpec == Init /\ [][ProtoNext]_vars

\* the names of events and seats that requests carry
NamedEvents == {Num("1"), Num("2"), Str(ProtoKey)}
NamedSeats == {Num("0"), Str("")}

\* every emission to a room went to the room of the event of the last message
OwnTopicOnly ==
    \A i \in 1..Len(out) :
        out[i].to[1] = "room" => out[i].to = <<"room", RoomOf(last.eventId)>>

\* C17 (seat and event independence), as stated: after a lockSeat or unlockSeat
\* on (e, s), the lock that the table yields for every other pair (e', s'), the
\* same seat under another event included, is the one it yielded before, and
\* seatLocked / seatUnlocked went to no room but e's. It holds while no event is
\* named '__proto__'; a lock taken under that name is the lock of the same seat
\* under every event.
C17_AsStated ==
    last.op \in {"lockSeat", "unlockSeat"} =>
      /\ OwnTopicOnly
      /\ \A e \in NamedEvents, s \in NamedSeats :
            <<ToKey(e), ToKey(s)>> # SlotOf(last)
            => LockAt(lockedSeats, e, s) = LockAt(prev, e, s)

(* ------------------------ the record of callbacks ---------------------- *)

\* the seat of the hand-over scenario and the readings of its clock
LogEvent == Str("E1")
LogSeat == Num("3")
LogUsers == {Str("A"), Str("B")}
LogTimes == {0, 60000, 90000, 91000}

\* the callback A ran, and the record has it: its message, the reading of the
\* clock, what it emitted and the table it left
Logged(A) ==
    /\ Len(log) < MaxLog
    /\ A
    /\ log' = Append(log, [m |-> last', at |-> now', out |-> out', table |-> lockedSeats'])
    /\ UNCHANGED <<connected, nextSweep, escaped, view>>

\* the requests on the seat are recorded; ticks of the clock and of the sweeper
\* come between them
LogNext ==
    \/ Advance(LogTimes) /\ UNCHANGED connected /\ Quiet
    \/ Sweep /\ UNCHANGED connected /\ Quiet
    \/ \E c \in Sockets : Connect(c) /\ Quiet
    \/ \E c \in Sockets \cap connected, u \in LogUsers :
          Logged(LockSeat(c, LogEvent, LogSeat, u))
    \/ \E c \in Sockets \cap connected, u \in LogUsers :
          Logged(UnlockSeat(c, LogEvent, LogSeat, u))

LogSpec == Init /\ [][LogNext]_vars

\* entry x of the record is the message op of user u, read at clock reading t
IsEntry(x, op, u, t) == x.m.op = op /\ x.m.userId = u /\ x.at = t

\* seatLocked{seat, u} went to the room of the event, and nothing else was emitted
Granted(x) ==
    x.out = <<Broadcast(x.m.eventId, "seatLocked",
                        [seatIndex |-> x.m.seatIndex, userId |-> x.m.userId])>>

\* seatUnlocked{seat} went to the room of the event, and nothing else was emitted
Released(x) ==
    x.out = <<Broadcast(x.m.eventId, "seatUnlocked", [seatIndex |-> x.m.seatIndex])>>

\* the four requests of the scenario, in order
IsHandOver ==
    /\ Len(log) = 4
    /\ IsEntry(log[1], "lockSeat", Str("A"), 0)
    /\ IsEntry(log[2], "lockSeat", Str("B"), 60000)
    /\ IsEntry(log[3], "unlockSeat", Str("A"), 90000)
    /\ IsEntry(log[4], "lockSeat", Str("B"), 91000)

\* C11 (hand-over): on one seat, A's lockSeat at t=0 is granted with seatLocked
\* {seat, A}, B's lockSeat at 60 s is refused with 'Seat already locked', A's
\* unlockSeat at 90 s emits seatUnlocked{seat}, B's lockSeat at 91 s is granted
\* with seatLocked{seat, B}, whatever ticks come between; and after any release
\* by the holder, the next lockSeat on the seat is granted, whoever sends it.
C11_HandOver ==
    /\ IsHandOver =>
          /\ Granted(log[1])
          /\ log[2].out = Failed(log[2].m, "Seat already locked")
          /\ Released(log[3])
          /\ Granted(log[4])
    /\ \A i, j \in 1..Len(log) :
          (/\ log[i].m.op = "unlockSeat"
           /\ log[i].m.lock # Undefined
           /\ log[i].m.lock.userId = log[i].m.userId
           /\ i < j
           /\ log[j].m.op = "lockSeat"
           /\ \A k \in (i + 1)..(j - 1) : log[k].m.op = "unlockSeat")
          => /\ Released(log[i])
             /\ Granted(log[j])

\* the scenario ran to its end and B holds the seat since 91 s
C11_Witness ==
    /\ IsHandOver
    /\ Granted(log[4])
    /\ LockAt(lockedSeats, LogEvent, LogSeat) = [userId |-> Str("B"), timestamp |-> 91000]

(* -------------------------------- faults ------------------------------- *)

\* null
Null == [t |-> "null", v |-> "null"]

\* an object that has no primitive value, such as {toString: null}: to use it
\* as a property key or in a template literal throws TypeError
NoPrimitive == [t |-> "object", v |-> "no primitive value"]

\* to destructure { eventId, seatIndex, userId } from x throws TypeError
NoFields(x) == x = Undefined \/ x = Null

FaultJoinIds == {Undefined, Num("1"), NoPrimitive}

FaultLockPayloads ==
    {Undefined, Null}
    \cup [eventId : {Num("1"), NoPrimitive}, seatIndex : {Num("0"), NoPrimitive},
          userId : {Str("A"), Str("B")}]

FaultUnlockPayloads ==
    {Undefined, Null}
    \cup [eventId : {Num("1"), NoPrimitive}, seatIndex : {Num("0"), NoPrimitive},
          userId : {Undefined, Str("A")}]

\* the parameter list of the handler threw: no try block encloses it, the
\* exception leaves the listener and, nothing catching it, ends the process
Escapes(op, sock) ==
    /\ escaped' = TRUE
    /\ last' = Ran(op, sock, Undefined, Undefined, Undefined, Undefined)
    /\ prev' = lockedSeats
    /\ out' = <<>>
    /\ UNCHANGED <<lockedSeats, now, rooms>>

\* a handler that threw inside its try block returns with the table as it was
\* when it threw, having emitted what its catch block emits
Caught(op, sock, e, s, u, table, emits) ==
    /\ lockedSeats' = table
    /\ out' = emits
    /\ last' = Ran(op, sock, e, s, u, Undefined)
    /\ prev' = lockedSeats
    /\ UNCHANGED <<now, rooms, escaped>>

\* socket.emit('seatLockFailed', { seatIndex, reason: 'Server error' })
ServerError(sock, s) ==
    <<EmitTo(sock, "seatLockFailed", [seatIndex |-> s, reason |-> "Server error"])>>

\* joinEvent: the template literal of socket.join throws for an eventId without
\* primitive value; the catch block logs
OnJoinEvent(sock, eventId) ==
    IF eventId = NoPrimitive
    THEN Caught("joinEvent", sock, eventId, Undefined, Undefined, lockedSeats, <<>>)
    ELSE JoinEvent(sock, eventId) /\ UNCHANGED escaped

\* lockSeat with payload p; emitThrows: io.to(...).emit throws
OnLockSeatFault(sock, p, emitThrows) ==
    IF NoFields(p) THEN Escapes("lockSeat", sock)
    ELSE LET e == p.eventId
             s == p.seatIndex
             u == p.userId
         IN  IF InvalidLockRequest(e, s, u)
             THEN LockSeat(sock, e, s, u) /\ UNCHANGED escaped
             ELSE IF e = NoPrimitive
             THEN Caught("lockSeat", sock, e, s, u, lockedSeats, ServerError(sock, s))
             ELSE IF s = NoPrimitive
             THEN Caught("lockSeat", sock, e, s, u, WithEvent(lockedSeats, e), ServerError(sock, s))
             ELSE IF emitThrows /\ ~HeldActive(lockedSeats, e, s, now)
             THEN Caught("lockSeat", sock, e, s, u,
                         Store(lockedSeats, e, s, [userId |-> u, timestamp |-> now]),
                         ServerError(sock, s))
             ELSE LockSeat(sock, e, s, u) /\ UNCHANGED escaped

\* unlockSeat with payload p; emitThrows: io.to(...).emit throws
OnUnlockSeatFault(sock, p, emitThrows) ==
    IF NoFields(p) THEN Escapes("unlockSeat", sock)
    ELSE LET e == p.eventId
             s == p.seatIndex
             u == p.userId
         IN  IF e = NoPrimitive \/ s = NoPrimitive
             THEN Caught("unlockSeat", sock, e, s, u, lockedSeats, <<>>)
             ELSE IF emitThrows /\ Unlocks(lockedSeats, e, s, u, now)
             THEN Caught("unlockSeat", sock, e, s, u,
                         UnlockSeatTable(lockedSeats, e, s, u, now), <<>>)
             ELSE UnlockSeat(sock, e, s, u) /\ UNCHANGED escaped

\* the callbacks run while the process lives
Alive == ~escaped /\ UNCHANGED <<nextSweep, view, log>>

FaultNext ==
    \/ Alive /\ Tick /\ UNCHANGED <<connected, escaped>>
    \/ Alive /\ Sweep /\ UNCHANGED <<connected, escaped>>
    \/ \E c \in Sockets : Alive /\ Connect(c) /\ UNCHANGED escaped
    \/ \E c \in Sockets : Alive /\ Disconnect(c) /\ UNCHANGED escaped
    \/ \E c \in Sockets \cap connected, e \in FaultJoinIds :
          Alive /\ OnJoinEvent(c, e) /\ UNCHANGED connected
    \/ \E c \in Sockets \cap connected, p \in FaultLockPayloads, emitThrows \in BOOLEAN :
          Alive /\ OnLockSeatFault(c, p, emitThrows) /\ UNCHANGED connected
    \/ \E c \in Sockets \cap connected, p \in FaultUnlockPayloads, emitThrows \in BOOLEAN :
          Alive /\ OnUnlockSeatFault(c, p, emitThrows) /\ UNCHANGED connected

FaultSpec == Init /\ [][FaultNext]_vars

\* C12 (error containment), as stated: whatever the payload of a joinEvent,
\* lockSeat, unlockSeat or disconnect message, an absent one included, no fault
\* leaves the handler, and the table stays in use. A lockSeat or unlockSeat
\* without payload throws in the handler's parameter list, outside its try block.
C12_AsStated == ~escaped

\* C13 (joinEvent always answers), as stated: every joinEvent sends exactly one
\* lockedSeats reply to the socket that asked, an empty mapping when the handler
\* met a fault. The catch block of the handler sends nothing.
C13_AsStated ==
    last.op = "joinEvent" =>
      \/ out = <<EmitTo(last.sock, "lockedSeats", EmptyObject)>>
      \/ /\ last.eventId # NoPrimitive
         /\ out = <<EmitTo(last.sock, "lockedSeats", ActiveLocks(prev, last.eventId, now))>>

\* C14 (a failed claim changes nothing), as stated: whenever lockSeat answered
\* seatLockFailed 'Server error', a fault of the seatLocked broadcast included,
\* the table holds the same locks as before the request. The handler stores the
\* lock before it broadcasts.
C14_AsStated ==
    (last.op = "lockSeat" /\ out = Failed(last, "Server error")) => TableUnchanged

(* ------------------- sweeper ticks between the requests ---------------- *)

RaceEvent == Num("1")
RaceSeat == Num("0")

\* the claimant behind each connection
UserOf(c) == IF c = "c1" THEN Str("A") ELSE Str("B")

\* requests on one seat from two connections, and the ticks of the sweeper, in
\* every order; all of them are recorded
RaceNext ==
    \/ Tick /\ UNCHANGED connected /\ Quiet
    \/ \E c \in AllSockets : Connect(c) /\ Quiet
    \/ Logged(Sweep)
    \/ \E c \in connected : Logged(JoinEvent(c, RaceEvent))
    \/ \E c \in connected : Logged(LockSeat(c, RaceEvent, RaceSeat, UserOf(c)))
    \/ \E c \in connected : Logged(UnlockSeat(c, RaceEvent, RaceSeat, UserOf(c)))

RaceSpec == Init /\ [][RaceNext]_vars

\* entry x is a lockSeat that left its sender as holder since reading x.at: a
\* fresh grant, or a renewal
Relocked(x) == x.m.op = "lockSeat" /\ (Granted(x) \/ x.out = <<>>)

\* the table of entry x has the sender of entry y as holder of its seat since y.at
HeldSince(x, y) ==
    LockAt(x.table, y.m.eventId, y.m.seatIndex) = [userId |-> y.m.userId, timestamp |-> y.at]

\* no request on the seat is recorded between entries i and j
NoneBetween(i, j) ==
    \A k \in (i + 1)..(j - 1) : log[k].m.op \notin {"lockSeat", "unlockSeat"}

\* C15 (sweep versus claim): callbacks run one after the other, each on the
\* table the one before left. A tick of the sweeper that comes after a seat was
\* re-locked, by a fresh grant or by a renewal, and no later than
\* LOCK_EXPIRY_TIME after it, neither removes that lock nor broadcasts
\* seatUnlocked for the seat, even when the lock it replaced had expired unswept;
\* and whichever of a tick and a granted lockSeat comes first, the seat ends with
\* the granted claimant as its one holder.
C15_SweepAfterRelock ==
    /\ \A i, j \in 1..Len(log) :
          (/\ i < j
           /\ Relocked(log[i])
           /\ log[j].m.op = "sweep"
           /\ NoneBetween(i, j)
           /\ log[j].at - log[i].at <= LOCK_EXPIRY_TIME)
          => /\ HeldSince(log[j], log[i])
             /\ \A n \in 1..Len(log[j].out) : log[j].out[n].ev # "seatUnlocked"
    /\ \A i \in 2..Len(log) :
          (log[i - 1].m.op = "sweep" /\ log[i].m.op = "lockSeat" /\ Granted(log[i]))
          => HeldSince(log[i], log[i])

\* A's lock had expired unswept when B took the seat, and the sweeper ticked at
\* the same reading of the clock
C15_Witness ==
    \E i \in 1..Len(log) :
        /\ i > 1 /\ i < Len(log)
        /\ log[i - 1].m.op = "lockSeat" /\ log[i - 1].m.userId = Str("A") /\ Granted(log[i - 1])
        /\ log[i].m.userId = Str("B") /\ Granted(log[i])
        /\ log[i].at - log[i - 1].at > LOCK_EXPIRY_TIME
        /\ log[i + 1].m.op = "sweep" /\ log[i + 1].at = log[i].at
        /\ LockAt(lockedSeats, RaceEvent, RaceSeat).userId = Str("B")

(* ---------------------- the sweeper ticks every 60 s ------------------- *)

\* the clock is read at every half interval
ClockStep == SWEEP_INTERVAL \div 2

TimedSeats == {Num("0"), Num("1")}

\* the clock moves on by one step, and not past a tick of the sweeper that is due
TimedAdvance ==
    /\ now < nextSweep
    /\ now + ClockStep <= MaxSweeps * SWEEP_INTERVAL
    /\ Advance({now + ClockStep})

\* the timer fires when its interval has passed, and is due one interval later
TimedSweep ==
    /\ now = nextSweep
    /\ Sweep
    /\ nextSweep' = nextSweep + SWEEP_INTERVAL

TimedNext ==
    \/ TimedAdvance /\ UNCHANGED <<connected, nextSweep, escaped, view, log>>
    \/ TimedSweep /\ UNCHANGED <<connected, escaped, view, log>>
    \/ \E c \in Sockets : Connect(c) /\ Quiet
    \/ \E c \in Sockets \cap connected, s \in TimedSeats, u \in LogUsers :
          LockSeat(c, Num("1"), s, u) /\ UNCHANGED connected /\ Quiet
    \/ \E c \in Sockets \cap connected, s \in TimedSeats, u \in {Undefined, Str("B")} :
          UnlockSeat(c, Num("1"), s, u) /\ UNCHANGED connected /\ Quiet

TimedSpec == Init /\ [][TimedNext]_vars

\* C16 (bounded expiry detection): with a tick of the sweeper every
\* SWEEP_INTERVAL, a lock taken or last renewed at T is stored no longer than
\* until the tick due at or before T + LOCK_EXPIRY_TIME + SWEEP_INTERVAL; and a
\* tick removes, with its seatUnlocked, only locks with now > T + LOCK_EXPIRY_TIME.
C16_BoundedExpiry ==
    /\ \A x \in Slots(lockedSeats) :
          LET age == now - Lock(lockedSeats, x).timestamp
          IN  /\ age <= LOCK_EXPIRY_TIME + SWEEP_INTERVAL
              /\ age = LOCK_EXPIRY_TIME + SWEEP_INTERVAL => nextSweep = now
              /\ age > LOCK_EXPIRY_TIME => nextSweep - SWEEP_INTERVAL <= now - age + LOCK_EXPIRY_TIME
    /\ last.op = "sweep" =>
          \A x \in Slots(prev) \ Slots(lockedSeats) :
              /\ now - Lock(prev, x).timestamp > LOCK_EXPIRY_TIME
              /\ \E i \in 1..Len(out) :
                    out[i] = Broadcast(Str(x[1]), "seatUnlocked", [seatIndex |-> Str(x[2])])

\* a tick has just removed a lock that was LOCK_EXPIRY_TIME + SWEEP_INTERVAL old
C16_Witness ==
    /\ last.op = "sweep"
    /\ \E x \in Slots(prev) \ Slots(lockedSeats) :
          /\ now - Lock(prev, x).timestamp = LOCK_EXPIRY_TIME + SWEEP_INTERVAL
          /\ \E i \in 1..Len(out) :
                out[i] = Broadcast(Str(x[1]), "seatUnlocked", [seatIndex |-> Str(x[2])])

(* ------------------------- the view of a subscriber -------------------- *)

\* the connection that listens, and the event it joins
Observer == "c2"
ObservedEvent == Num("1")

\* message m is sent to the observer's socket, or to a room it is in
Reaches(m, joined) ==
    \/ m.to = <<"socket", Observer>>
    \/ m.to[1] = "room" /\ m.to[2] \in joined

\* the view after message m: the lockedSeats reply replaces it, seatLocked sets
\* seat -> user, seatUnlocked removes the seat
Applied(v, m) ==
    CASE m.ev = "lockedSeats" -> m.arg
      [] m.ev = "seatLocked" -> Put(v, ToKey(m.arg.seatIndex), m.arg.userId)
      [] m.ev = "seatUnlocked" -> Delete(v, ToKey(m.arg.seatIndex))
      [] OTHER -> v

\* the view after the messages msgs, in the order of their emission
RECURSIVE AppliedAll(_, _, _)
AppliedAll(v, msgs, joined) ==
    IF msgs = <<>> THEN v
    ELSE AppliedAll(IF Reaches(Head(msgs), joined) THEN Applied(v, Head(msgs)) ELSE v,
                    Tail(msgs), joined)

\* the callback A ran and the observer received what A emitted to it
Observed(A) ==
    /\ A
    /\ view' = AppliedAll(view, out', rooms'[Observer])
    /\ UNCHANGED <<nextSweep, escaped, log>>

ViewLockPayloads ==
    [eventId : {Num("1"), Num("2")}, seatIndex : {Num("0"), Num("1")},
     userId : {Str("A"), Str("B")}]

ViewUnlockPayloads ==
    [eventId : {Num("1"), Num("2")}, seatIndex : {Num("0"), Num("1")},
     userId : {Undefined, Str("A"), Str("B")}]

\* c1 sends the requests; the observer joins one event and stays
ViewNext ==
    \/ Observed(Tick) /\ UNCHANGED connected
    \/ Observed(Sweep) /\ UNCHANGED connected
    \/ \E c \in AllSockets : Observed(Connect(c))
    \/ Observer \in connected /\ Observed(JoinEvent(Observer, ObservedEvent)) /\ UNCHANGED connected
    \/ \E c \in Sockets \cap connected, p \in ViewLockPayloads :
          Observed(OnLockSeat(c, p)) /\ UNCHANGED connected
    \/ \E c \in Sockets \cap connected, p \in ViewUnlockPayloads :
          Observed(UnlockSeat(c, p.eventId, p.seatIndex, p.userId)) /\ UNCHANGED connected

ViewSpec == Init /\ [][ViewNext]_vars

\* seat -> holder of the stored locks of the observed event
StoredHolders ==
    LET ek == ToKey(ObservedEvent)
    IN  IF ek \in DOMAIN lockedSeats
        THEN [k \in DOMAIN lockedSeats[ek] |-> lockedSeats[ek][k].userId]
        ELSE EmptyObject

\* C18 (subscriber view): once the observer has joined its event, and no other,
\* every seat of the event whose stored lock is at most LOCK_EXPIRY_TIME old is in
\* its view with the stored holder, every seat in its view has a stored lock,
\* and right after a tick of the sweeper the view is the stored seat -> holder
\* mapping of the event.
C18_ViewConsistent ==
    rooms[Observer] = {RoomOf(ObservedEvent)} =>
      /\ \A k \in LiveSeats(ToKey(ObservedEvent)) :
            k \in DOMAIN view /\ view[k] = StoredHolders[k]
      /\ DOMAIN view \subseteq DOMAIN StoredHolders
      /\ last.op = "sweep" => view = StoredHolders

\* the view holds a seat whose lock has expired and is not swept yet, next to a
\* seat it learnt from a seatLocked broadcast after joining
C18_Witness ==
    /\ rooms[Observer] = {RoomOf(ObservedEvent)}
    /\ \E k \in DOMAIN view : k \notin LiveSeats(ToKey(ObservedEvent))
    /\ last.op = "lockSeat"
    /\ Len(out) = 1 /\ out[1].ev = "seatLocked"
    /\ last.eventId = ObservedEvent
    /\ view[ToKey(last.seatIndex)] = last.userId

(* ------------------------------ heartbeats ----------------------------- *)

\* readings of the clock that are LOCK_EXPIRY_TIME apart, and others
BeatTimes == {0, 200000, LOCK_EXPIRY_TIME, 2 * LOCK_EXPIRY_TIME}

\* the requests of A, of B and of nobody on one seat, and the ticks of the
\* sweeper; all of them are recorded
BeatNext ==
    \/ Advance(BeatTimes) /\ UNCHANGED connected /\ Quiet
    \/ \E c \in Sockets : Connect(c) /\ Quiet
    \/ Logged(Sweep)
    \/ \E c \in Sockets \cap connected, u \in LogUsers :
          Logged(LockSeat(c, RaceEvent, RaceSeat, u))
    \/ \E c \in Sockets \cap connected, u \in {Undefined} \cup LogUsers :
          Logged(UnlockSeat(c, RaceEvent, RaceSeat, u))

BeatSpec == Init /\ [][BeatNext]_vars

Holder == Str("A")

\* entry x is a lockSeat of the holder
IsBeat(x) == x.m.op = "lockSeat" /\ x.m.userId = Holder

\* the last lockSeat of the holder among the entries i..k
LastBeat(i, k) ==
    log[CHOOSE n \in i..k : IsBeat(log[n]) /\ \A x \in (n + 1)..k : ~IsBeat(log[x])]

\* from entry i, which made A the holder, to entry j: every callback ran at most
\* LOCK_EXPIRY_TIME after A's last lockSeat, and none was an unlockSeat with A's
\* id or without id
Beating(i, j) ==
    /\ i < j
    /\ IsBeat(log[i]) /\ Relocked(log[i])
    /\ \A k \in (i + 1)..j :
          /\ log[k].at - LastBeat(i, k - 1).at <= LOCK_EXPIRY_TIME
          /\ ~(log[k].m.op = "unlockSeat"
                /\ (log[k].m.userId = Holder \/ Falsy(log[k].m.userId)))

\* C19 (heartbeat): while A sends lockSeat for its seat at most LOCK_EXPIRY_TIME
\* after its last one, and no unlockSeat with A's id or without id is processed
\* for the seat, A is the stored holder after every callback: a tick of the
\* sweeper broadcasts no seatUnlocked, a lockSeat of another claimant is refused
\* with 'Seat already locked', an unlockSeat of another claimant emits nothing,
\* and A's own lockSeat moves the timestamp to now without any message.
C19_Heartbeat ==
    \A i, j \in 1..Len(log) :
        Beating(i, j) =>
          LET x == log[j]
          IN  /\ LockAt(x.table, RaceEvent, RaceSeat) # Undefined
              /\ LockAt(x.table, RaceEvent, RaceSeat).userId = Holder
              /\ LockAt(x.table, RaceEvent, RaceSeat).timestamp = LastBeat(i, j).at
              /\ x.m.op = "sweep" => x.out = <<>>
              /\ x.m.op = "unlockSeat" => x.out = <<>>
              /\ (x.m.op = "lockSeat" /\ ~IsBeat(x)) => x.out = Failed(x.m, "Seat already locked")
              /\ IsBeat(x) => x.out = <<>>

\* A took the seat at 0 and sent lockSeat again LOCK_EXPIRY_TIME later; B is
\* refused at twice LOCK_EXPIRY_TIME
C19_Witness ==
    /\ Len(log) >= 3
    /\ Beating(1, 3)
    /\ IsBeat(log[2])
    /\ log[3].m.op = "lockSeat" /\ log[3].m.userId = Str("B")
    /\ log[3].at - log[1].at = 2 * LOCK_EXPIRY_TIME
    /\ log[3].out = Failed(log[3].m, "Seat already locked")

(* ------------------------ connections that go away --------------------- *)

\* the callback A ran, a connection coming or going with it, and the record has it
LoggedLink(A) ==
    /\ Len(log) < MaxLog
    /\ A
    /\ log' = Append(log, [m |-> last', at |-> now', out |-> out', table |-> lockedSeats'])
    /\ UNCHANGED <<nextSweep, escaped, view>>

\* connection c has gone; it does not come back
Gone(c) == \E n \in 1..Len(log) : log[n].m.op = "disconnect" /\ log[n].m.sock = c

\* two connections, each with its claimant, come, send requests on one seat
\* and go
GoneNext ==
    \/ Tick /\ UNCHANGED connected /\ Quiet
    \/ \E c \in AllSockets : ~Gone(c) /\ Connect(c) /\ Quiet
    \/ \E c \in AllSockets : LoggedLink(Disconnect(c))
    \/ Logged(Sweep)
    \/ \E c \in connected : Logged(LockSeat(c, RaceEvent, RaceSeat, UserOf(c)))
    \/ \E c \in connected : Logged(UnlockSeat(c, RaceEvent, RaceSeat, UserOf(c)))

GoneSpec == Init /\ [][GoneNext]_vars

\* the table that the callback of entry j found
TableBefore(j) == IF j = 1 THEN EmptyObject ELSE log[j - 1].table

\* C20 (disconnect does not release): a disconnect leaves the table as it found
\* it and emits nothing; and a lock taken through a connection that has gone
\* since is still stored, and refuses the lockSeat of another claimant with
\* 'Seat already locked', while it is at most LOCK_EXPIRY_TIME old and no
\* unlockSeat or lockSeat came in between.
C20_DisconnectKeeps ==
    /\ \A j \in 1..Len(log) :
          log[j].m.op = "disconnect" =>
            log[j].out = <<>> /\ log[j].table = TableBefore(j)
    /\ \A i, j, k \in 1..Len(log) :
          (/\ i < j /\ j < k
           /\ Relocked(log[i])
           /\ log[j].m.op = "disconnect" /\ log[j].m.sock = log[i].m.sock
           /\ NoneBetween(i, k)
           /\ log[k].m.op = "lockSeat" /\ log[k].m.userId # log[i].m.userId
           /\ log[k].at - log[i].at <= LOCK_EXPIRY_TIME)
          => /\ log[k].out = Failed(log[k].m, "Seat already locked")
             /\ HeldSince(log[k], log[i])

\* A's connection took the seat and went; B's lockSeat is refused when the lock
\* is LOCK_EXPIRY_TIME old
C20_Witness ==
    /\ Len(log) >= 3
    /\ Granted(log[1]) /\ log[1].m.userId = Str("A")
    /\ log[2].m.op = "disconnect" /\ log[2].m.sock = log[1].m.sock
    /\ log[3].m.op = "lockSeat" /\ log[3].m.userId = Str("B")
    /\ log[3].at - log[1].at = LOCK_EXPIRY_TIME
    /\ log[3].out = Failed(log[3].m, "Seat already locked")
    /\ log[1].m.sock \notin connected

====
